---------------------------- MODULE Spec2Model ----------------------------
(***************************************************************************)
(* BeaconStorage (src/unnamed/part_001): the storage sink of the beacon    *)
(* gateway.  storeBeaconRecord writes one record through _retryWithBackoff *)
(* and buffers it on failure; flushBuffer replays the buffer.              *)
(*                                                                         *)
(* JavaScript runs each async function atomically between two awaits, so   *)
(* one action is the code from one await to the next.  The awaits are the  *)
(* pending docClient.send (pc = "sending") and the backoff timer           *)
(* (pc = "waiting").  The return of _retryWithBackoff to its awaiting      *)
(* caller touches no shared field, so it is taken in the same step as the  *)
(* caller's continuation.  The local variables of an invocation (attempt,  *)
(* recordsToProcess, the loop position) are cleared when it returns; its   *)
(* return value is kept.                                                   *)
(***************************************************************************)
EXTENDS Integers, Sequences, FiniteSets, TLC

\* ------------------------------------------------------------------ bounds

\* this.maxBufferSize (100 in the source), scaled down for model checking
maxBufferSize == 2

\* number of storeBeaconRecord invocations (one per advertisement event);
\* call c is the c-th invocation
NumCalls == 3

\* number of flushBuffer invocations; flush f is the f-th invocation
NumFlushes == 2

\* _retryWithBackoff(operation, maxAttempts = 3)
maxAttempts == 3

Calls == 1..NumCalls
Flushers == 1..NumFlushes

\* ------------------------------------------------------- values and errors

\* shapes of the advertisement argument: with iBeacon data, without it, and
\* null/undefined (a property access on it throws a TypeError)
Advertisements == {"iBeacon", "noBeacon", "nullish"}

retryableErrors ==
    {"ServiceUnavailable", "ProvisionedThroughputExceededException",
     "RequestTimeout", "NetworkingError"}

\* values docClient.send may reject with: a classified error, any other
\* Error object, or a thrown null/undefined (no properties to read)
StoreErrors == retryableErrors \cup {"ValidationException", "nullish"}

\* how one docClient.send settles
SendOutcomes == {"ok"} \cup StoreErrors

\* the value has properties that can be read (it is neither null nor undefined)
HasProperties(error) == error # "nullish"

\* variant: every error object is classified as retryable
isRetryableAll(error) == TRUE

isRetryable(error) == error \in retryableErrors

NoRecord == [recordId |-> 0, timestamp |-> 0]

\* ------------------------------------------------------------------- state

VARIABLES
    buffer,              \* this.buffer: sequence of records
    isFlushing,          \* this.isFlushing
    droppedRecordCount,  \* this.droppedRecordCount
    calls,               \* the storeBeaconRecord invocations
    flushes,             \* the flushBuffer invocations
    now,                 \* Date.now(), advanced at each construction
    stored,              \* recordIds the remote store has accepted
    pushLog,             \* history: recordIds in the order _addToBuffer appended them
    evicted,             \* history: recordIds shifted out of the buffer by _addToBuffer
    flushLog,            \* history: recordIds of the PutCommands sent by the latest
                         \* flush, consecutive sends of one record listed once
    retry,               \* one _retryWithBackoff invocation on its own (RetrySpec)
    setup,               \* validateConfig and BeaconStorage.initialize on their
                         \* own (SetupSpec)
    app,                 \* quick_start.js: the process, the scanner and the
                         \* shutdown invocations (AppSpec)
    dash                 \* dashboard-server.js: one /api/beacons request
                         \* (DashSpec)

\* the fields of BeaconStorage, its invocations and their history
storage == <<buffer, isFlushing, droppedRecordCount, calls, flushes, now,
             stored, pushLog, evicted, flushLog>>

vars == <<buffer, isFlushing, droppedRecordCount, calls, flushes, now,
          stored, pushLog, evicted, flushLog, retry, setup, app, dash>>

\* result: what _retryWithBackoff gave the call ("success", "failure", or
\* "threw" when it rejected); handler: how the advertisement handler that made
\* the call took its outcome
IdleCall == [pc |-> "idle", record |-> NoRecord, attempt |-> 0,
             result |-> "none", ret |-> "pending", value |-> 0,
             handler |-> "none"]

IdleFlush == [pc |-> "idle", recordsToProcess |-> <<>>, index |-> 0, attempt |-> 0,
              successCount |-> 0, failedCount |-> 0,
              ret |-> "pending", skipped |-> FALSE, empty |-> FALSE,
              pushesAtStart |-> 0]

\* _retryWithBackoff not invoked: maxAttempts is its argument, attempt the
\* loop variable, outcomes the way each operation() call settled, waits the
\* delays (ms) of the setTimeout calls, result what the promise settled with
RetryIdle == [pc |-> "idle", maxAttempts |-> 0, attempt |-> 0, outcomes |-> <<>>,
              waits |-> <<>>, result |-> [kind |-> "none", value |-> "none"]]

\* validateConfig and BeaconStorage.initialize not invoked: env and config are
\* the argument, contacted whether client.send was called, describe what the
\* describe call settled with, result what the function returned
SetupIdle == [pc |-> "idle", env |-> "none", config |-> "none",
              contacted |-> FALSE, describe |-> "none", result |-> "none"]

\* quick_start.js loaded: the signal handlers are registered and initialize()
\* is about to run
AppLoaded == [phase |-> "loaded"]

\* no /api/beacons request made: items and count are what the two queries
\* returned, response what the handler sent
DashIdle == [pc |-> "idle", items |-> <<>>, count |-> 0, response |-> [status |-> 0]]

\* the constructor
Init ==
    /\ buffer = <<>>
    /\ isFlushing = FALSE
    /\ droppedRecordCount = 0
    /\ calls = [c \in Calls |-> IdleCall]
    /\ flushes = [f \in Flushers |-> IdleFlush]
    /\ now = 1
    /\ stored = {}
    /\ pushLog = <<>>
    /\ evicted = {}
    /\ flushLog = <<>>
    /\ retry = RetryIdle
    /\ setup = SetupIdle
    /\ app = AppLoaded
    /\ dash = DashIdle

\* ----------------------------------------------------------------- helpers

Range(s) == {s[i] : i \in 1..Len(s)}

Ids(s) == {s[i].recordId : i \in 1..Len(s)}

\* Array.prototype.findIndex(r => r.recordId === id), 0 for -1
FindIndex(buf, id) ==
    IF \E i \in 1..Len(buf) : buf[i].recordId = id
    THEN CHOOSE i \in 1..Len(buf) :
            /\ buf[i].recordId = id
            /\ \A j \in 1..(i - 1) : buf[j].recordId # id
    ELSE 0

\* Array.prototype.splice(index, 1)
Splice(buf, index) ==
    [i \in 1..(Len(buf) - 1) |-> IF i < index THEN buf[i] ELSE buf[i + 1]]


\* the send log after a PutCommand for recordId was handed to docClient.send
Sent(log, recordId) ==
    IF Len(log) > 0 /\ log[Len(log)] = recordId THEN log ELSE Append(log, recordId)

\* ------------------------------------------------------- _retryWithBackoff

\* variant: the loop gives up one attempt early
RetryStepNGivesUpEarly(outcome, attempt, limit) ==
    IF outcome = "ok" THEN "success"
    ELSE IF ~HasProperties(outcome) THEN "throws"
    ELSE IF ~isRetryable(outcome) \/ attempt >= limit - 1 THEN "failure"
    ELSE "retry"

\* one pass of the loop body after `await operation()` settled with `outcome`
\* on attempt number `attempt`, with `limit` the maxAttempts argument:
\*   "success"  return {success: true, data}
\*   "failure"  return {success: false, error}
\*   "retry"    wait 2^(attempt-1) s, then the next attempt
\*   "throws"   reading error.name of null/undefined throws a TypeError
\*              inside the catch block, which rejects _retryWithBackoff
RetryStepN(outcome, attempt, limit) ==
    IF outcome = "ok" THEN "success"
    ELSE IF ~HasProperties(outcome) THEN "throws"
    ELSE IF ~isRetryable(outcome) \/ attempt = limit THEN "failure"
    ELSE "retry"

\* the same with the default maxAttempts, as storeBeaconRecord and
\* flushBuffer call it
RetryStep(outcome, attempt) == RetryStepN(outcome, attempt, maxAttempts)

\* ------------------------------------------------------------ _addToBuffer

\* variant: the capacity test written with > instead of >=
AddToBufferOffByOne(buf, record) ==
    IF Len(buf) > maxBufferSize
    THEN Append(Tail(buf), record)
    ELSE Append(buf, record)

\* variant: pop() instead of shift(), dropping the newest buffered record
AddToBufferDropsNewest(buf, record) ==
    IF Len(buf) >= maxBufferSize
    THEN Append(SubSeq(buf, 1, Len(buf) - 1), record)
    ELSE Append(buf, record)

\* variant: the new record is put at the head (unshift instead of push)
AddToBufferUnshift(buf, record) ==
    IF Len(buf) >= maxBufferSize
    THEN <<record>> \o Tail(buf)
    ELSE <<record>> \o buf

\* variant: the record is pushed twice while there is room
AddToBufferTwice(buf, record) ==
    IF Len(buf) >= maxBufferSize
    THEN Append(Tail(buf), record)
    ELSE IF Len(buf) + 2 <= maxBufferSize
    THEN Append(Append(buf, record), record)
    ELSE Append(buf, record)

\* this.buffer after _addToBuffer(record)
AddToBuffer(buf, record) ==
    IF Len(buf) >= maxBufferSize
    THEN Append(Tail(buf), record)
    ELSE Append(buf, record)

\* variant: the increment placed outside the overflow test
DroppedAfterAddEveryPush(buf, count) == count + 1

\* this.droppedRecordCount after _addToBuffer(record)
DroppedAfterAdd(buf, count) ==
    IF Len(buf) >= maxBufferSize THEN count + 1 ELSE count

\* getBufferSize()
getBufferSize == Len(buffer)

\* ------------------------------------------------------- storeBeaconRecord

\* variant: the catch block logs and rethrows
StoreCatchRethrows(error) == "rejected"

\* the catch block of storeBeaconRecord: it reads error.constructor.name and
\* returns null; a caught null/undefined would make that read throw
StoreCatch(error) == IF HasProperties(error) THEN "null" ELSE "rejected"

\* the catch of scanner.onadvertisement (.catch(error => ...) in one variant
\* of quick_start.js, try/await/catch in the other): it reads
\* error.constructor.name and logs
HandlerCatch(error) == IF HasProperties(error) THEN "absorbed" ELSE "unhandled"

\* variant: the handler reads a property of the value storeBeaconRecord
\* resolved with, which throws when that value is null
HandlerSettledReadsId(ret) == IF ret = "id" THEN "returned" ELSE "unhandled"

\* how the handler takes the settled promise of storeBeaconRecord; a
\* rejection comes from the catch block of storeBeaconRecord throwing, which
\* is a TypeError
HandlerSettled(ret) ==
    IF ret = "rejected" THEN HandlerCatch("TypeError") ELSE "returned"

\* variant: the id is returned whatever _retryWithBackoff reported
StoreReturnAlwaysId(step, recordId) == [ret |-> "id", value |-> recordId]

\* what storeBeaconRecord returns after _retryWithBackoff reported `step`:
\* return recordId, or (after _addToBuffer) return null
StoreReturn(step, recordId) ==
    IF step = "success"
    THEN [ret |-> "id", value |-> recordId]
    ELSE [ret |-> "null", value |-> 0]

\* the call record once storeBeaconRecord has settled
Settled(call, result, ret, value) ==
    [call EXCEPT !.pc = "done", !.attempt = 0, !.result = result,
                 !.ret = ret, !.value = value, !.handler = HandlerSettled(ret)]

\* storeBeaconRecord(advertisement) up to its first await: build the record
\* and send the first PutCommand.  A null/undefined advertisement throws a
\* TypeError at advertisement.iBeacon, before the record exists.
StoreBeaconRecord(c, advertisement) ==
    /\ calls[c].pc = "idle"
    /\ \A d \in 1..(c - 1) : calls[d].pc # "idle"
    /\ now' = now + 1
    /\ IF advertisement = "nullish"
       THEN calls' = [calls EXCEPT ![c] =
                Settled(@, "none", StoreCatch("TypeError"), 0)]
       ELSE calls' = [calls EXCEPT ![c] =
                [@ EXCEPT !.pc = "sending",
                          !.record = [recordId |-> c, timestamp |-> now],
                          !.attempt = 1]]
    /\ UNCHANGED <<buffer, isFlushing, droppedRecordCount, flushes,
                   stored, pushLog, evicted, flushLog>>

\* variant: an advertisement is taken only when every earlier
\* storeBeaconRecord call has completed
onadvertisementSerialized(c, advertisement) ==
    /\ \A d \in 1..(c - 1) : calls[d].pc = "done"
    /\ StoreBeaconRecord(c, advertisement)

\* scanner.onadvertisement(ad): log the advertisement and call
\* storeBeaconRecord(ad); control is back with the scanner at the first await
onadvertisement(c, advertisement) == StoreBeaconRecord(c, advertisement)

\* the pending docClient.send of call c settles; the code runs on to the
\* next await or to the return
StoreSendSettles(c, outcome) ==
    /\ calls[c].pc = "sending"
    /\ LET record == calls[c].record
           step == RetryStep(outcome, calls[c].attempt)
       IN
       /\ stored' = IF outcome = "ok" THEN stored \cup {record.recordId} ELSE stored
       /\ CASE step = "success" ->
                 /\ calls' = [calls EXCEPT ![c] =
                        Settled(@, step, StoreReturn(step, record.recordId).ret,
                                   StoreReturn(step, record.recordId).value)]
                 /\ UNCHANGED <<buffer, droppedRecordCount, pushLog, evicted>>
            [] step = "failure" ->
                 /\ buffer' = AddToBuffer(buffer, record)
                 /\ droppedRecordCount' = DroppedAfterAdd(buffer, droppedRecordCount)
                 /\ pushLog' = Append(pushLog, record.recordId)
                 /\ evicted' = evicted \cup (Ids(buffer) \ Ids(buffer'))
                 /\ calls' = [calls EXCEPT ![c] =
                        Settled(@, step, StoreReturn(step, record.recordId).ret,
                                   StoreReturn(step, record.recordId).value)]
            [] step = "retry" ->
                 /\ calls' = [calls EXCEPT ![c] = [@ EXCEPT !.pc = "waiting"]]
                 /\ UNCHANGED <<buffer, droppedRecordCount, pushLog, evicted>>
            [] step = "throws" ->
                 /\ calls' = [calls EXCEPT ![c] =
                        Settled(@, "threw", StoreCatch("TypeError"), 0)]
                 /\ UNCHANGED <<buffer, droppedRecordCount, pushLog, evicted>>
    /\ UNCHANGED <<isFlushing, flushes, now, flushLog>>

\* the backoff timer of call c fires: the next attempt sends the PutCommand
StoreTimerFires(c) ==
    /\ calls[c].pc = "waiting"
    /\ calls' = [calls EXCEPT ![c] =
            [@ EXCEPT !.pc = "sending", !.attempt = @ + 1]]
    /\ UNCHANGED <<buffer, isFlushing, droppedRecordCount, flushes, now,
                   stored, pushLog, evicted, flushLog>>

\* ------------------------------------------------------------- flushBuffer

\* if (this.isFlushing) return { success: 0, failed: 0, skipped: true }
FlushSkipped(f) ==
    /\ isFlushing
    /\ flushes' = [flushes EXCEPT ![f] =
            [@ EXCEPT !.pc = "done", !.ret = "resolved", !.skipped = TRUE]]
    /\ UNCHANGED <<buffer, isFlushing, flushLog>>

\* variant: the flag is set before the empty test and the early return
\* leaves it set
FlushEmptySetsFlag(f) ==
    /\ ~isFlushing
    /\ Len(buffer) = 0
    /\ isFlushing' = TRUE
    /\ flushes' = [flushes EXCEPT ![f] =
            [@ EXCEPT !.pc = "done", !.ret = "resolved", !.empty = TRUE]]
    /\ UNCHANGED <<buffer, flushLog>>

\* if (this.buffer.length === 0) return { success: 0, failed: 0, empty: true }
FlushEmpty(f) ==
    /\ ~isFlushing
    /\ Len(buffer) = 0
    /\ flushes' = [flushes EXCEPT ![f] =
            [@ EXCEPT !.pc = "done", !.ret = "resolved", !.empty = TRUE]]
    /\ UNCHANGED <<buffer, isFlushing, flushLog>>

\* variant: the copy is taken newest first
CopyBufferReversed(buf) == [i \in 1..Len(buf) |-> buf[Len(buf) + 1 - i]]

\* variant: the copy stamps each record with the time of the flush
CopyBufferRestamped(buf) == [i \in 1..Len(buf) |-> [buf[i] EXCEPT !.timestamp = now]]

\* const recordsToProcess = [...this.buffer]
CopyBuffer(buf) == buf

\* variant: flushBuffer without the isFlushing test
FlushStartUnguarded(f) ==
    /\ Len(buffer) # 0
    /\ isFlushing' = TRUE
    /\ flushes' = [flushes EXCEPT ![f] =
            [@ EXCEPT !.pc = "sending", !.recordsToProcess = CopyBuffer(buffer),
                      !.index = 1, !.attempt = 1,
                      !.pushesAtStart = Len(pushLog)]]
    /\ flushLog' = <<CopyBuffer(buffer)[1].recordId>>
    /\ UNCHANGED buffer

\* set the flag, copy the buffer and send the PutCommand of the first record
FlushStart(f) ==
    /\ ~isFlushing
    /\ Len(buffer) # 0
    /\ isFlushing' = TRUE
    /\ flushes' = [flushes EXCEPT ![f] =
            [@ EXCEPT !.pc = "sending", !.recordsToProcess = CopyBuffer(buffer),
                      !.index = 1, !.attempt = 1,
                      !.pushesAtStart = Len(pushLog)]]
    /\ flushLog' = <<CopyBuffer(buffer)[1].recordId>>
    /\ UNCHANGED buffer

\* flushBuffer() up to its first await or its early return
FlushBuffer(f) ==
    /\ flushes[f].pc = "idle"
    /\ \A g \in 1..(f - 1) : flushes[g].pc # "idle"
    /\ FlushSkipped(f) \/ FlushEmpty(f) \/ FlushStart(f)
    /\ UNCHANGED <<droppedRecordCount, calls, now, stored, pushLog, evicted>>

\* variant: the catch block inside the loop throws the error on
FlushCatchRethrows(error) == "rejected"

\* the catch block inside the loop of flushBuffer: it reads
\* error.constructor.name and counts the record as failed
FlushCatch(error) == IF HasProperties(error) THEN "counted" ELSE "rejected"

\* variant: splice without the index !== -1 test; splice(-1, 1) removes the
\* last element
RemoveFlushedUnchecked(buf, recordId) ==
    IF FindIndex(buf, recordId) # 0
    THEN Splice(buf, FindIndex(buf, recordId))
    ELSE SubSeq(buf, 1, Len(buf) - 1)

\* variant: shift() instead of removal by recordId
RemoveFlushedShift(buf, recordId) ==
    IF Len(buf) = 0 THEN buf ELSE Tail(buf)

\* variant: a written record is left in the buffer
RemoveFlushedNever(buf, recordId) == buf

\* variant: a successful write empties the buffer
RemoveFlushedAll(buf, recordId) == <<>>

\* this.buffer after a successful write of the record with this recordId:
\* findIndex by recordId, splice if found
RemoveFlushed(buf, recordId) ==
    IF FindIndex(buf, recordId) # 0
    THEN Splice(buf, FindIndex(buf, recordId))
    ELSE buf

\* variant: the loop is left at the first record that failed
FlushAdvanceBreaks(f, fl, success, failed) ==
    IF fl.index < Len(fl.recordsToProcess) /\ failed = fl.failedCount
    THEN /\ flushes' = [flushes EXCEPT ![f] =
                [fl EXCEPT !.pc = "sending", !.index = @ + 1, !.attempt = 1,
                           !.successCount = success, !.failedCount = failed]]
         /\ flushLog' = Sent(flushLog, fl.recordsToProcess[fl.index + 1].recordId)
         /\ UNCHANGED isFlushing
    ELSE /\ flushes' = [flushes EXCEPT ![f] =
                [fl EXCEPT !.pc = "done", !.ret = "resolved",
                           !.recordsToProcess = <<>>, !.index = 0, !.attempt = 0,
                           !.successCount = success, !.failedCount = failed]]
         /\ isFlushing' = FALSE
         /\ UNCHANGED flushLog

\* variant: the flag is reset only when no record failed
FlushAdvanceKeepsFlagOnFailure(f, fl, success, failed) ==
    IF fl.index < Len(fl.recordsToProcess)
    THEN /\ flushes' = [flushes EXCEPT ![f] =
                [fl EXCEPT !.pc = "sending", !.index = @ + 1, !.attempt = 1,
                           !.successCount = success, !.failedCount = failed]]
         /\ flushLog' = Sent(flushLog, fl.recordsToProcess[fl.index + 1].recordId)
         /\ UNCHANGED isFlushing
    ELSE /\ flushes' = [flushes EXCEPT ![f] =
                [fl EXCEPT !.pc = "done", !.ret = "resolved",
                           !.recordsToProcess = <<>>, !.index = 0, !.attempt = 0,
                           !.successCount = success, !.failedCount = failed]]
         /\ isFlushing' = (failed > 0)
         /\ UNCHANGED flushLog

\* variant: successCount is set to 1 on a successful write, not incremented
FlushAdvanceSuccessFlag(f, fl, success, failed) ==
    LET flag == IF success > 0 THEN 1 ELSE 0 IN
    IF fl.index < Len(fl.recordsToProcess)
    THEN /\ flushes' = [flushes EXCEPT ![f] =
                [fl EXCEPT !.pc = "sending", !.index = @ + 1, !.attempt = 1,
                           !.successCount = flag, !.failedCount = failed]]
         /\ flushLog' = Sent(flushLog, fl.recordsToProcess[fl.index + 1].recordId)
         /\ UNCHANGED isFlushing
    ELSE /\ flushes' = [flushes EXCEPT ![f] =
                [fl EXCEPT !.pc = "done", !.ret = "resolved",
                           !.recordsToProcess = <<>>, !.index = 0, !.attempt = 0,
                           !.successCount = flag, !.failedCount = failed]]
         /\ isFlushing' = FALSE
         /\ UNCHANGED flushLog

\* the loop of flushBuffer moves on from the record at fl.index, with the
\* counts as given: send the next record, or reset the flag and return
FlushAdvance(f, fl, success, failed) ==
    IF fl.index < Len(fl.recordsToProcess)
    THEN /\ flushes' = [flushes EXCEPT ![f] =
                [fl EXCEPT !.pc = "sending", !.index = @ + 1, !.attempt = 1,
                           !.successCount = success, !.failedCount = failed]]
         /\ flushLog' = Sent(flushLog, fl.recordsToProcess[fl.index + 1].recordId)
         /\ UNCHANGED isFlushing
    ELSE /\ flushes' = [flushes EXCEPT ![f] =
                [fl EXCEPT !.pc = "done", !.ret = "resolved",
                           !.recordsToProcess = <<>>, !.index = 0, !.attempt = 0,
                           !.successCount = success, !.failedCount = failed]]
         /\ isFlushing' = FALSE
         /\ UNCHANGED flushLog

\* the pending docClient.send of flush f settles
FlushSendSettles(f, outcome) ==
    /\ flushes[f].pc = "sending"
    /\ LET fl == flushes[f]
           record == fl.recordsToProcess[fl.index]
           step == RetryStep(outcome, fl.attempt)
       IN
       /\ stored' = IF outcome = "ok" THEN stored \cup {record.recordId} ELSE stored
       /\ CASE step = "success" ->
                 /\ buffer' = RemoveFlushed(buffer, record.recordId)
                 /\ FlushAdvance(f, fl, fl.successCount + 1, fl.failedCount)
            [] step = "failure" ->
                 /\ FlushAdvance(f, fl, fl.successCount, fl.failedCount + 1)
                 /\ UNCHANGED buffer
            [] step = "retry" ->
                 /\ flushes' = [flushes EXCEPT ![f] = [@ EXCEPT !.pc = "waiting"]]
                 /\ UNCHANGED <<buffer, isFlushing, flushLog>>
            [] step = "throws" ->
                 /\ IF FlushCatch("TypeError") = "counted"
                    THEN FlushAdvance(f, fl, fl.successCount, fl.failedCount + 1)
                    ELSE /\ flushes' = [flushes EXCEPT ![f] =
                                [@ EXCEPT !.pc = "done", !.ret = "rejected",
                                          !.recordsToProcess = <<>>,
                                          !.index = 0, !.attempt = 0]]
                         /\ UNCHANGED <<isFlushing, flushLog>>
                 /\ UNCHANGED buffer
    /\ UNCHANGED <<droppedRecordCount, calls, now, pushLog, evicted>>

\* the backoff timer of flush f fires: the next attempt sends the PutCommand
FlushTimerFires(f) ==
    /\ flushes[f].pc = "waiting"
    /\ flushes' = [flushes EXCEPT ![f] =
            [@ EXCEPT !.pc = "sending", !.attempt = @ + 1]]
    /\ flushLog' = Sent(flushLog,
            flushes[f].recordsToProcess[flushes[f].index].recordId)
    /\ UNCHANGED <<buffer, isFlushing, droppedRecordCount, calls, now,
                   stored, pushLog, evicted>>

\* ----------------------------------------------------------- specification

Next ==
    \/ \E c \in Calls, advertisement \in Advertisements :
            onadvertisement(c, advertisement) /\ UNCHANGED <<retry, setup, app, dash>>
    \/ \E c \in Calls, outcome \in SendOutcomes :
            StoreSendSettles(c, outcome) /\ UNCHANGED <<retry, setup, app, dash>>
    \/ \E c \in Calls : StoreTimerFires(c) /\ UNCHANGED <<retry, setup, app, dash>>
    \/ \E f \in Flushers : FlushBuffer(f) /\ UNCHANGED <<retry, setup, app, dash>>
    \/ \E f \in Flushers, outcome \in SendOutcomes :
            FlushSendSettles(f, outcome) /\ UNCHANGED <<retry, setup, app, dash>>
    \/ \E f \in Flushers : FlushTimerFires(f) /\ UNCHANGED <<retry, setup, app, dash>>

Spec == Init /\ [][Next]_vars


\* the store answers every PutCommand of a flush (it resolves or rejects) and
\* the event loop fires every backoff timer
FlushFairSpec ==
    /\ Spec
    /\ WF_vars(\E f \in Flushers, outcome \in SendOutcomes :
                    FlushSendSettles(f, outcome) /\ UNCHANGED <<retry, setup, app, dash>>)
    /\ WF_vars(\E f \in Flushers :
                    FlushTimerFires(f) /\ UNCHANGED <<retry, setup, app, dash>>)

\* ------------------------------------------------- _retryWithBackoff alone

\* largest maxAttempts argument tried
MaxLimit == 4

\* maxAttempts arguments: negative, zero, one, the default, and above
Limits == (0 - 1)..MaxLimit

\* variant: the exponent is the attempt number
DelayFromTwo(attempt) == (2 ^ attempt) * 1000

\* delay = Math.pow(2, attempt - 1) * 1000, in milliseconds
Delay(attempt) == (2 ^ (attempt - 1)) * 1000

\* the head of the for loop with the loop variable at `attempt`: call
\* operation(), or fall out of the loop to the end of the function, which
\* has no return statement
RetryLoop(r, attempt) ==
    IF attempt <= r.maxAttempts
    THEN [r EXCEPT !.pc = "calling", !.attempt = attempt]
    ELSE [r EXCEPT !.pc = "resolved", !.attempt = attempt,
                   !.result = [kind |-> "undefined", value |-> "undefined"]]

\* _retryWithBackoff(operation, limit) up to its first await
RetryWithBackoff(limit) ==
    /\ retry.pc = "idle"
    /\ retry' = RetryLoop([retry EXCEPT !.maxAttempts = limit], 1)
    /\ UNCHANGED <<storage, setup, app, dash>>

\* the pending operation() settles: resolved ("ok") or rejected with a value
RetryOperationSettles(outcome) ==
    /\ retry.pc = "calling"
    /\ LET step == RetryStepN(outcome, retry.attempt, retry.maxAttempts)
           seen == [retry EXCEPT !.outcomes = Append(@, outcome)]
       IN  retry' =
             CASE step = "success" ->
                    [seen EXCEPT !.pc = "resolved",
                                 !.result = [kind |-> "success", value |-> outcome]]
               [] step = "failure" ->
                    [seen EXCEPT !.pc = "resolved",
                                 !.result = [kind |-> "failure", value |-> outcome]]
               [] step = "throws" ->
                    [seen EXCEPT !.pc = "rejected",
                                 !.result = [kind |-> "thrown", value |-> "TypeError"]]
               [] OTHER ->
                    [seen EXCEPT !.pc = "waiting",
                                 !.waits = Append(@, Delay(retry.attempt))]
    /\ UNCHANGED <<storage, setup, app, dash>>

\* the setTimeout of the backoff fires: attempt++ and the loop head again
RetryTimerFires ==
    /\ retry.pc = "waiting"
    /\ retry' = RetryLoop(retry, retry.attempt + 1)
    /\ UNCHANGED <<storage, setup, app, dash>>

RetryNext ==
    \/ \E limit \in Limits : RetryWithBackoff(limit)
    \/ \E outcome \in SendOutcomes : RetryOperationSettles(outcome)
    \/ RetryTimerFires

RetrySpec == Init /\ [][RetryNext]_vars

\* ------------------------------ validateConfig and BeaconStorage.initialize

\* [a-z] and \d of regionPattern
LowerCase == {"a", "b", "c", "d", "e", "f", "g", "h", "i", "j", "k", "l", "m",
              "n", "o", "p", "q", "r", "s", "t", "u", "v", "w", "x", "y", "z"}
Digits == {"0", "1", "2", "3", "4", "5", "6", "7", "8", "9"}

\* 'us-east-1', the default of config.region, as a sequence of characters
DefaultRegion == <<"u", "s", "-", "e", "a", "s", "t", "-", "1">>

\* values of AWS_REGION: unset, well-formed ones, and malformed ones (a
\* four-part name, upper case, no number, a trailing letter, an empty middle
\* part, three leading letters)
RegionValues ==
    { <<>>,
      DefaultRegion,
      <<"e", "u", "-", "w", "-", "1", "2">>,
      <<"u", "s", "-", "g", "o", "v", "-", "w", "-", "1">>,
      <<"U", "S", "-", "e", "-", "1">>,
      <<"u", "s", "-", "e", "-">>,
      <<"u", "s", "-", "e", "-", "1", "a">>,
      <<"u", "s", "-", "-", "1">>,
      <<"u", "s", "e", "-", "e", "-", "1">> }

\* process.env as far as aws-config reads it; "" is an unset (or empty)
\* variable
Environments ==
    [AWS_REGION : RegionValues,
     BEACON_TABLE_NAME : {"", "Beacons"},
     GATEWAY_ID : {"", "gw-1"},
     GATEWAY_NAME : {"", "Lobby"},
     GATEWAY_LOCATION : {"", "room:A"},
     AWS_ACCESS_KEY_ID : {"", "AKIA"},
     AWS_SECRET_ACCESS_KEY : {"", "secret"}]

\* getAWSConfig(): "" stands for null, "default" for credentials: undefined
getAWSConfig(env) ==
    [region |-> IF env.AWS_REGION # <<>> THEN env.AWS_REGION ELSE DefaultRegion,
     credentials |-> IF env.AWS_ACCESS_KEY_ID # "" /\ env.AWS_SECRET_ACCESS_KEY # ""
                     THEN "explicit" ELSE "default",
     tableName |-> IF env.BEACON_TABLE_NAME # ""
                   THEN env.BEACON_TABLE_NAME ELSE "BeaconRecords",
     gatewayId |-> env.GATEWAY_ID,
     gatewayName |-> env.GATEWAY_NAME,
     gatewayLocation |-> env.GATEWAY_LOCATION]

\* /^[a-z]{2}-[a-z]+-\d+$/.test(region)
regionPattern(region) ==
    /\ Len(region) >= 6
    /\ region[1] \in LowerCase
    /\ region[2] \in LowerCase
    /\ region[3] = "-"
    /\ \E j \in 5..(Len(region) - 1) :
            /\ region[j] = "-"
            /\ \A k \in 4..(j - 1) : region[k] \in LowerCase
            /\ \A k \in (j + 1)..Len(region) : region[k] \in Digits

\* variant: a missing GATEWAY_NAME fails the validation
validateConfigNeedsName(env) ==
    /\ regionPattern(getAWSConfig(env).region)
    /\ getAWSConfig(env).gatewayId # ""
    /\ getAWSConfig(env).gatewayName # ""
    /\ (env.AWS_ACCESS_KEY_ID # "") = (env.AWS_SECRET_ACCESS_KEY # "")

\* validateConfig(), test by test
validateConfig(env) ==
    LET config == getAWSConfig(env)
    IN  IF config.region = <<>> THEN FALSE
        ELSE IF ~regionPattern(config.region) THEN FALSE
        ELSE IF config.gatewayId = "" THEN FALSE
        ELSE IF env.AWS_ACCESS_KEY_ID # "" \/ env.AWS_SECRET_ACCESS_KEY # ""
             THEN IF env.AWS_ACCESS_KEY_ID = "" THEN FALSE
                  ELSE IF env.AWS_SECRET_ACCESS_KEY = "" THEN FALSE
                  ELSE TRUE
             ELSE TRUE

\* the config objects a BeaconStorage is constructed with: each required
\* value present or missing
Configs ==
    [region : {<<>>, DefaultRegion},
     credentials : {"default", "explicit"},
     tableName : {"", "BeaconRecords"},
     gatewayId : {"", "gw-1"},
     gatewayName : {"", "Lobby"},
     gatewayLocation : {""}]

\* what client.send(new DescribeTableCommand(...)) settles with: a response
\* with Table.TableStatus, or a rejection with an error of that name, or with
\* null/undefined
TableStatuses == {"ACTIVE", "CREATING", "UPDATING", "DELETING", "ARCHIVED"}
DescribeErrors == {"ResourceNotFoundException", "UnrecognizedClientException",
                   "InvalidSignatureException", "CredentialsProviderError",
                   "NetworkingError", "nullish"}
DescribeOutcomes == TableStatuses \cup DescribeErrors

\* the tests of initialize() before the store is contacted: the message of
\* the Error thrown, "" when all three pass
ConfigError(config) ==
    IF config.region = <<>> THEN "AWS region is required in configuration"
    ELSE IF config.tableName = "" THEN "DynamoDB table name is required in configuration"
    ELSE IF config.gatewayId = "" THEN "Gateway ID is required in configuration"
    ELSE ""

\* variant: the table status is not looked at
DescribeResultAnyStatus(outcome) ==
    IF outcome \in TableStatuses THEN "returned" ELSE "raised"

\* initialize() after the describe call settled: it returns, or throws (the
\* catch block rethrows under another message; for a null/undefined
\* rejection it throws a TypeError at error.constructor)
DescribeResult(outcome) ==
    IF outcome = "ACTIVE" THEN "returned" ELSE "raised"

\* validateConfig() on an environment
ValidateConfig(env) ==
    /\ setup.pc = "idle"
    /\ setup' = [setup EXCEPT !.pc = "validated", !.env = env,
                              !.config = getAWSConfig(env),
                              !.result = IF validateConfig(env) THEN "true" ELSE "false"]
    /\ UNCHANGED <<storage, retry, app, dash>>

\* new BeaconStorage(config).initialize() up to its first await or throw
Initialize(config) ==
    /\ setup.pc = "idle"
    /\ setup' = IF ConfigError(config) = ""
                THEN [setup EXCEPT !.pc = "describing", !.config = config,
                                   !.contacted = TRUE, !.result = "pending"]
                ELSE [setup EXCEPT !.pc = "settled", !.config = config,
                                   !.result = "raised"]
    /\ UNCHANGED <<storage, retry, app, dash>>

\* the describe call of initialize() settles
InitializeDescribeSettles(outcome) ==
    /\ setup.pc = "describing"
    /\ setup' = [setup EXCEPT !.pc = "settled", !.describe = outcome,
                              !.result = DescribeResult(outcome)]
    /\ UNCHANGED <<storage, retry, app, dash>>

SetupNext ==
    \/ \E env \in Environments : ValidateConfig(env)
    \/ \E config \in Configs : Initialize(config)
    \/ \E outcome \in DescribeOutcomes : InitializeDescribeSettles(outcome)

SetupSpec == Init /\ [][SetupNext]_vars

\* ------------------------------------------------------------ quick_start.js

\* advertisements the scanner delivers while the application runs
NumEvents == 2
Events == 1..NumEvents

\* the shutdown(signal) invocations: each may call flushBuffer once
Signals == Flushers

\* what scanner.startScan() and scanner.stopScan() settle with
ScannerOutcomes == {"ok", "error"}

\* the process is running
Alive == app.exit = "none"

\* shutdown invocation s has not been made
ShutdownIdle == [pc |-> "idle", flush |-> 0, stop |-> "none"]

\* the state once initialize() of quick_start.js has been called: init is its
\* position, storageInit how beaconStorage.initialize() settled, handler
\* whether scanner.onadvertisement is set, scanning whether the scanner has
\* been started and not stopped, sd the shutdown invocations, exit the status
\* of process.exit, store the availability of the remote store ("unknown"
\* while it answers either way)
AppStarted(init, storageInit, exit) ==
    [phase |-> "started", init |-> init, storageInit |-> storageInit,
     handler |-> FALSE, scanning |-> FALSE,
     sd |-> [s \in Signals |-> ShutdownIdle], exit |-> exit, store |-> "unknown"]

\* initialize() up to its first await: validateConfig(), the constructor, and
\* beaconStorage.initialize() up to its describe call
AppInitialize(env) ==
    /\ app.phase = "loaded"
    /\ app' = IF ~validateConfig(env)
              THEN AppStarted("invalid", "none", "1")
              ELSE IF ConfigError(getAWSConfig(env)) # ""
              THEN AppStarted("initFailed", "raised", "1")
              ELSE AppStarted("describing", "pending", "none")
    /\ UNCHANGED <<storage, retry, setup, dash>>

\* variant: an error of beaconStorage.initialize() is swallowed
InitAfterDescribeIgnoresError(result) == "startScan"

\* initialize() after beaconStorage.initialize() settled: go on to register
\* the handler and start the scan, or (catch) process.exit(1)
InitAfterDescribe(result) == IF result = "returned" THEN "startScan" ELSE "exit"

\* the describe call of beaconStorage.initialize() settles; initialize() runs
\* on to await scanner.startScan() or to process.exit(1)
AppDescribeSettles(outcome) ==
    /\ app.phase = "started" /\ Alive
    /\ app.init = "describing"
    /\ app' = IF InitAfterDescribe(DescribeResult(outcome)) = "startScan"
              THEN [app EXCEPT !.init = "startingScan",
                               !.storageInit = DescribeResult(outcome),
                               !.handler = TRUE, !.scanning = TRUE]
              ELSE [app EXCEPT !.init = "initFailed",
                               !.storageInit = DescribeResult(outcome),
                               !.exit = "1"]
    /\ UNCHANGED <<storage, retry, setup, dash>>

\* scanner.startScan() settles: initialize() returns, or (catch) process.exit(1)
AppStartScanSettles(outcome) ==
    /\ app.phase = "started" /\ Alive
    /\ app.init = "startingScan"
    /\ app' = IF outcome = "ok"
              THEN [app EXCEPT !.init = "running"]
              ELSE [app EXCEPT !.init = "scanFailed", !.exit = "1"]
    /\ UNCHANGED <<storage, retry, setup, dash>>

\* the scanner calls the registered handler with an advertisement
ScannerDelivers(c, advertisement) ==
    /\ app.phase = "started" /\ Alive
    /\ app.handler /\ app.scanning
    /\ onadvertisement(c, advertisement)
    /\ UNCHANGED <<retry, setup, app, dash>>

\* the remote store answers a write according to its availability
Answers(outcome) ==
    CASE app.store = "up" -> outcome = "ok"
      [] app.store = "down" -> outcome # "ok"
      [] OTHER -> TRUE

AppStoreSendSettles(c, outcome) ==
    /\ app.phase = "started" /\ Alive
    /\ Answers(outcome)
    /\ StoreSendSettles(c, outcome)
    /\ UNCHANGED <<retry, setup, app, dash>>

AppStoreTimerFires(c) ==
    /\ app.phase = "started" /\ Alive
    /\ StoreTimerFires(c)
    /\ UNCHANGED <<retry, setup, app, dash>>

AppFlushSendSettles(f, outcome) ==
    /\ app.phase = "started" /\ Alive
    /\ Answers(outcome)
    /\ FlushSendSettles(f, outcome)
    /\ UNCHANGED <<retry, setup, app, dash>>

AppFlushTimerFires(f) ==
    /\ app.phase = "started" /\ Alive
    /\ FlushTimerFires(f)
    /\ UNCHANGED <<retry, setup, app, dash>>

\* shutdown invocation s calls scanner.stopScan() and awaits it
StopScanCalled(s) ==
    [app EXCEPT !.sd[s].pc = "stopping", !.scanning = FALSE]

\* a termination signal: shutdown(signal) up to its first await, which is
\* flushBuffer() when records are buffered and scanner.stopScan() otherwise
Shutdown(s) ==
    /\ app.phase = "started" /\ Alive
    /\ app.sd[s].pc = "idle"
    /\ \A t \in 1..(s - 1) : app.sd[t].pc # "idle"
    /\ IF getBufferSize > 0
       THEN \E f \in Flushers :
                /\ FlushBuffer(f)
                /\ app' = [app EXCEPT !.sd[s].pc = "flushing", !.sd[s].flush = f]
                /\ UNCHANGED <<retry, setup, dash>>
       ELSE /\ app' = StopScanCalled(s)
            /\ UNCHANGED <<storage, retry, setup, dash>>

\* the catch around await beaconStorage.flushBuffer(): it reads
\* flushError.constructor.name and logs
ShutdownFlushCatch(error) == IF HasProperties(error) THEN "logged" ELSE "thrown"

\* variant: a flush with failed records ends the shutdown with exit(1)
AfterFlushFailsOnFailed(fl) ==
    IF fl.failedCount > 0 THEN "exit" ELSE "stopScan"

\* shutdown after the flush promise settled: log the counts, or (inner catch)
\* the error, and go on to stop the scanner; a throw inside the inner catch
\* reaches the outer catch and process.exit(1)
AfterFlush(fl) ==
    IF fl.ret = "rejected" /\ ShutdownFlushCatch("TypeError") = "thrown"
    THEN "exit" ELSE "stopScan"

\* the flushBuffer() awaited by shutdown invocation s has settled
ShutdownAfterFlush(s) ==
    /\ app.phase = "started" /\ Alive
    /\ app.sd[s].pc = "flushing"
    /\ flushes[app.sd[s].flush].pc = "done"
    /\ app' = IF AfterFlush(flushes[app.sd[s].flush]) = "stopScan"
              THEN StopScanCalled(s)
              ELSE [app EXCEPT !.sd[s].pc = "done", !.exit = "1"]
    /\ UNCHANGED <<storage, retry, setup, dash>>

\* scanner.stopScan() of shutdown invocation s settles: process.exit(0), or
\* (outer catch) process.exit(1)
StopScanSettles(s, outcome) ==
    /\ app.phase = "started" /\ Alive
    /\ app.sd[s].pc = "stopping"
    /\ app' = [app EXCEPT !.sd[s].pc = "done", !.sd[s].stop = outcome,
                          !.exit = IF outcome = "ok" THEN "0" ELSE "1"]
    /\ UNCHANGED <<storage, retry, setup, dash>>

\* the remote store becomes unavailable, or available again
StoreOutage ==
    /\ app.phase = "started" /\ Alive
    /\ app.store # "down"
    /\ app' = [app EXCEPT !.store = "down"]
    /\ UNCHANGED <<storage, retry, setup, dash>>

StoreRecovery ==
    /\ app.phase = "started" /\ Alive
    /\ app.store = "down"
    /\ app' = [app EXCEPT !.store = "up"]
    /\ UNCHANGED <<storage, retry, setup, dash>>

AppNext ==
    \/ \E env \in Environments : AppInitialize(env)
    \/ \E outcome \in DescribeOutcomes : AppDescribeSettles(outcome)
    \/ \E outcome \in ScannerOutcomes : AppStartScanSettles(outcome)
    \/ \E c \in Events, advertisement \in Advertisements :
            ScannerDelivers(c, advertisement)
    \/ \E c \in Events, outcome \in SendOutcomes : AppStoreSendSettles(c, outcome)
    \/ \E c \in Events : AppStoreTimerFires(c)
    \/ \E s \in Signals : Shutdown(s)
    \/ \E f \in Flushers, outcome \in SendOutcomes : AppFlushSendSettles(f, outcome)
    \/ \E f \in Flushers : AppFlushTimerFires(f)
    \/ \E s \in Signals : ShutdownAfterFlush(s)
    \/ \E s \in Signals, outcome \in ScannerOutcomes : StopScanSettles(s, outcome)

AppSpec == Init /\ [][AppNext]_vars

\* every pending call into the store or the scanner settles, every timer
\* fires, and a continuation whose promise has settled runs; signals and
\* advertisements are up to the environment
AppFair ==
    /\ WF_vars(\E outcome \in DescribeOutcomes : AppDescribeSettles(outcome))
    /\ WF_vars(\E outcome \in ScannerOutcomes : AppStartScanSettles(outcome))
    /\ WF_vars(\E c \in Events, outcome \in SendOutcomes : AppStoreSendSettles(c, outcome))
    /\ WF_vars(\E c \in Events : AppStoreTimerFires(c))
    /\ WF_vars(\E f \in Flushers, outcome \in SendOutcomes : AppFlushSendSettles(f, outcome))
    /\ WF_vars(\E f \in Flushers : AppFlushTimerFires(f))
    /\ WF_vars(\E s \in Signals : ShutdownAfterFlush(s))
    /\ WF_vars(\E s \in Signals, outcome \in ScannerOutcomes : StopScanSettles(s, outcome))

AppFairSpec == AppSpec /\ AppFair

\* the application with the outages and recoveries of the remote store
AvailNext ==
    \/ AppNext
    \/ StoreOutage
    \/ StoreRecovery

AvailFairSpec == Init /\ [][AvailNext]_vars /\ AppFair

\* -------------------------------------------------------- dashboard-server.js

\* const RECENT_TIME_WINDOW = 30000
RECENT_TIME_WINDOW == 30000

\* largest number of Items the records query returns (Limit: 100 in the
\* source), scaled down
MaxRecords == 3

\* const now = Date.now() of the request
DashNow == 2 * RECENT_TIME_WINDOW

\* timestamps of the retrieved records: around the edge of the recent window
\* and just before the request
Timestamps ==
    {DashNow - RECENT_TIME_WINDOW - 1, DashNow - RECENT_TIME_WINDOW,
     DashNow - RECENT_TIME_WINDOW + 1, DashNow - 1}

\* beacons seen by the gateway: two share a uuid, two share major and minor
Beacons ==
    {[uuid |-> "u1", major |-> 1, minor |-> 1],
     [uuid |-> "u1", major |-> 1, minor |-> 2],
     [uuid |-> "u2", major |-> 1, minor |-> 1]}

Rssis == {0 - 60, 0 - 70}

\* the fields of a stored record that handleBeacons reads
DashRecords ==
    {[uuid |-> b.uuid, major |-> b.major, minor |-> b.minor,
      rssi |-> r, timestamp |-> t] : b \in Beacons, r \in Rssis, t \in Timestamps}

\* const records = response.Items || []: a list in any order; an absent
\* Items is the empty list
ItemLists == UNION {[1..n -> DashRecords] : n \in 0..MaxRecords}

\* countResponse.Count || 0 of the count query
Counts == 0..1

\* `${record.uuid}-${record.major}-${record.minor}`: major and minor are
\* numbers, so the string determines the three parts
Key(record) == <<record.uuid, record.major, record.minor>>

\* the object handleBeacons puts in beaconMap for a record (txPower, name and
\* detectedAt are copied the same way and left out)
Entry(record) ==
    [uuid |-> record.uuid, major |-> record.major, minor |-> record.minor,
     rssi |-> record.rssi, lastSeen |-> record.timestamp]

\* beaconMap.get(key).timestamp: the entry object has lastSeen and no
\* timestamp property, so the read gives undefined
EntryTimestamp(entry) == "undefined"

\* x > y in JavaScript for a number x: false when y is undefined
GreaterThan(x, y) == IF y = "undefined" THEN FALSE ELSE x > y

\* position of the key in the Map (entries in insertion order), 0 if absent
MapIndex(map, key) ==
    IF \E i \in 1..Len(map) : Key(map[i]) = key
    THEN CHOOSE i \in 1..Len(map) : Key(map[i]) = key
    ELSE 0

\* Map.prototype.set: a present key keeps its position
MapSet(map, key, entry) ==
    IF MapIndex(map, key) = 0
    THEN Append(map, entry)
    ELSE [map EXCEPT ![MapIndex(map, key)] = entry]

RECURSIVE BeaconMap(_, _)
\* beaconMap after records.forEach has handled the first n records
BeaconMap(records, n) ==
    IF n = 0 THEN <<>>
    ELSE LET map == BeaconMap(records, n - 1)
             record == records[n]
             i == MapIndex(map, Key(record))
         IN  IF i = 0 \/ GreaterThan(record.timestamp, EntryTimestamp(map[i]))
             THEN MapSet(map, Key(record), Entry(record))
             ELSE map

\* the entry put into a list sorted by (a, b) => b.rssi - a.rssi, behind the
\* entries it does not precede (Array.prototype.sort is stable)
SortInsert(sorted, entry) ==
    LET before == Cardinality({i \in 1..Len(sorted) : sorted[i].rssi >= entry.rssi})
    IN  SubSeq(sorted, 1, before) \o <<entry>> \o SubSeq(sorted, before + 1, Len(sorted))

RECURSIVE SortByRssi(_, _)
\* the first n entries sorted by signal strength, strongest first
SortByRssi(entries, n) ==
    IF n = 0 THEN <<>> ELSE SortInsert(SortByRssi(entries, n - 1), entries[n])

\* the body of the 200 response
BeaconsResponse(items, count) ==
    LET map == BeaconMap(items, Len(items))
        beacons == SortByRssi(map, Len(map))
    IN  [status |-> 200,
         beacons |-> beacons,
         uniqueBeacons |-> Len(beacons),
         activeBeacons |->
            Cardinality({i \in 1..Len(beacons) :
                            DashNow - beacons[i].lastSeen < RECENT_TIME_WINDOW}),
         strongestSignal |-> IF Len(beacons) > 0 THEN beacons[1].rssi ELSE "null",
         totalRecords |-> count]

\* handleBeacons with both queries answered
HandleBeacons(items, count) ==
    /\ dash.pc = "idle"
    /\ dash' = [pc |-> "done", items |-> items, count |-> count,
                response |-> BeaconsResponse(items, count)]
    /\ UNCHANGED <<storage, retry, setup, app>>

\* handleBeacons when a query rejects: the catch block answers 500
HandleBeaconsFails ==
    /\ dash.pc = "idle"
    /\ dash' = [dash EXCEPT !.pc = "done", !.response = [status |-> 500]]
    /\ UNCHANGED <<storage, retry, setup, app>>

\* one request is followed; the lists are only enumerated while it is open
DashNext ==
    \/ /\ dash.pc = "idle"
       /\ \E items \in ItemLists, count \in Counts : HandleBeacons(items, count)
    \/ HandleBeaconsFails

DashSpec == Init /\ [][DashNext]_vars

\* ------------------------------------------------------------ vocabulary

\* the invocations whose docClient.send is pending
PendingSends ==
    {<<"store", c>> : c \in {d \in Calls : calls[d].pc = "sending"}}
        \cup {<<"flush", f>> : f \in {g \in Flushers : flushes[g].pc = "sending"}}

\* the flushBuffer bodies between setting the flag and returning
RunningFlushes == {f \in Flushers : flushes[f].pc \in {"sending", "waiting"}}

\* no storeBeaconRecord and no flushBuffer is in progress
Quiescent ==
    /\ \A c \in Calls : calls[c].pc \in {"idle", "done"}
    /\ RunningFlushes = {}

\* position of a recordId in the order of the pushes, 0 if never pushed
PushPos(recordId) ==
    IF \E i \in 1..Len(pushLog) : pushLog[i] = recordId
    THEN CHOOSE i \in 1..Len(pushLog) : pushLog[i] = recordId
    ELSE 0

\* this step ran _addToBuffer
PushStep == pushLog' # pushLog

\* the record a PushStep appended
Pushed == calls[pushLog'[Len(pushLog')]].record

\* ------------------------------------------------------------------ C1

\* C1: storeBeaconRecord never raises: every returned promise is resolved,
\* never rejected, with the id of the record it built or with null.
C1_StoreNeverRaises ==
    \A c \in Calls :
        calls[c].pc = "done" =>
            /\ calls[c].ret \in {"id", "null"}
            /\ calls[c].ret = "id" =>
                    calls[c].value = calls[c].record.recordId /\ calls[c].value # 0
            /\ calls[c].ret = "null" => calls[c].value = 0

\* a call that returned an id, one that returned null after buffering, and
\* one that returned null from the catch block
C1_Witness ==
    /\ \E c \in Calls : calls[c].pc = "done" /\ calls[c].ret = "id"
    /\ \E c \in Calls : /\ calls[c].pc = "done" /\ calls[c].ret = "null"
                        /\ PushPos(calls[c].record.recordId) # 0
    /\ \E c \in Calls : /\ calls[c].pc = "done" /\ calls[c].ret = "null"
                        /\ PushPos(calls[c].record.recordId) = 0

\* ------------------------------------------------------------------ C2

\* C2: at-least-once accounting: when no call is in progress, every record
\* that was constructed has been written to the store, or is in the buffer,
\* or was evicted and counted once in droppedRecordCount.
C2_AllAccounted ==
    Quiescent =>
        /\ droppedRecordCount = Cardinality(evicted)
        /\ \A c \in Calls :
              calls[c].record # NoRecord =>
                  \/ calls[c].record.recordId \in stored
                  \/ calls[c].record.recordId \in Ids(buffer)
                  \/ calls[c].record.recordId \in evicted

\* ------------------------------------------------------------------ C3

\* C3: the buffer never holds more than maxBufferSize records.
C3_BufferBound == Len(buffer) <= maxBufferSize

\* a full buffer that has already overflowed, while a flush is in progress
C3_Witness ==
    /\ Len(buffer) = maxBufferSize
    /\ droppedRecordCount >= 1
    /\ isFlushing

\* ------------------------------------------------------------------ C4

\* a push at capacity removes the record at index 0 and nothing else, keeps
\* the others in order and appends the new record; below capacity it only
\* appends
C4_PushStep ==
    PushStep =>
        IF Len(buffer) >= maxBufferSize
        THEN /\ Len(buffer') = Len(buffer)
             /\ \A i \in 1..(Len(buffer) - 1) : buffer'[i] = buffer[i + 1]
             /\ buffer'[Len(buffer')] = Pushed
             /\ Ids(buffer) \ Ids(buffer') = {buffer[1].recordId}
             /\ droppedRecordCount' = droppedRecordCount + 1
        ELSE /\ Len(buffer') = Len(buffer) + 1
             /\ \A i \in 1..Len(buffer) : buffer'[i] = buffer[i]
             /\ buffer'[Len(buffer')] = Pushed
             /\ droppedRecordCount' = droppedRecordCount

\* maxBufferSize + 1 pushes into the empty buffer, no flush
C4_ScenarioA ==
    (Len(pushLog) = maxBufferSize + 1 /\ \A f \in Flushers : flushes[f].pc = "idle") =>
        /\ Len(buffer) = maxBufferSize
        /\ buffer[1].recordId = pushLog[2]
        /\ droppedRecordCount = 1

\* C4: oldest-first eviction: a push at capacity removes exactly the oldest
\* record and appends the new one at the tail, a push below capacity removes
\* nothing; after capacity+1 pushes into the empty buffer the size is the
\* capacity, the oldest survivor is the 2nd pushed and the dropped count is 1.
C4_OldestFirstEviction == [][C4_PushStep]_vars /\ []C4_ScenarioA

C4_Witness ==
    /\ Len(pushLog) = maxBufferSize + 1
    /\ \A f \in Flushers : flushes[f].pc = "idle"
    /\ droppedRecordCount = 1

\* ------------------------------------------------------------------ C5

\* the count moves only with an eviction, and then by one per evicted record
C5_Step == droppedRecordCount' = droppedRecordCount + Cardinality(evicted' \ evicted)

\* C5: droppedRecordCount starts at 0, never decreases, grows by exactly 1 on
\* each overflow eviction and is changed by nothing else; it always equals
\* the number of evictions so far.
C5_DroppedCountExact ==
    /\ droppedRecordCount = 0
    /\ [][C5_Step /\ droppedRecordCount' \in {droppedRecordCount, droppedRecordCount + 1}]_vars
    /\ [](droppedRecordCount = Cardinality(evicted))

\* an eviction was counted and a flush has run to its end as well
C5_Witness ==
    /\ droppedRecordCount = 1
    /\ \E f \in Flushers :
          flushes[f].pc = "done" /\ ~flushes[f].skipped /\ ~flushes[f].empty
    /\ stored # {}

\* ------------------------------------------------------------------ C6

\* a flushBuffer call that finds a flush in progress returns the skipped
\* result at once and touches nothing
C6_SkippedStep ==
    \A f \in Flushers :
        (flushes[f].pc = "idle" /\ flushes'[f].pc # "idle" /\ isFlushing) =>
            /\ flushes'[f] = [IdleFlush EXCEPT !.pc = "done", !.ret = "resolved",
                                               !.skipped = TRUE]
            /\ flushes'[f].successCount = 0 /\ flushes'[f].failedCount = 0
            /\ PendingSends' = PendingSends
            /\ flushLog' = flushLog
            /\ buffer' = buffer
            /\ isFlushing' = isFlushing

\* C6: flush mutual exclusion: at most one flushBuffer body runs at a time,
\* and a call made while a flush is in progress returns immediately with
\* the skipped result (success 0, failed 0), sends nothing and changes
\* neither the buffer nor the flag.
C6_FlushMutualExclusion ==
    /\ [](Cardinality(RunningFlushes) <= 1)
    /\ [][C6_SkippedStep]_vars

\* a second call was skipped while the first flush is still running
C6_Witness ==
    \E f, g \in Flushers :
        /\ flushes[f].pc \in {"sending", "waiting"}
        /\ flushes[g].pc = "done" /\ flushes[g].skipped

\* ------------------------------------------------------------------ C7

\* flush f got a success for the record it is sending in this step
FlushedNow(f, r) ==
    /\ flushes[f].pc = "sending"
    /\ flushes[f].recordsToProcess[flushes[f].index] = r
    /\ r.recordId \in stored'
    /\ flushes'[f].successCount = flushes[f].successCount + 1

\* a record leaves the buffer only by eviction or because a flush wrote it;
\* the survivors keep their order and a new record comes after all of them
C7_Step ==
    /\ \A i \in 1..Len(buffer) :
          buffer[i] \notin Range(buffer') =>
              \/ buffer[i].recordId \in evicted' \ evicted
              \/ \E f \in Flushers : FlushedNow(f, buffer[i])
    /\ \A i, j \in 1..Len(buffer') :
          i < j =>
              \/ /\ buffer'[i] \in Range(buffer)
                 /\ buffer'[j] \in Range(buffer)
                 /\ FindIndex(buffer, buffer'[i].recordId)
                        < FindIndex(buffer, buffer'[j].recordId)
              \/ /\ buffer'[i] \in Range(buffer)
                 /\ buffer'[j] \notin Range(buffer)
                 /\ PushStep /\ buffer'[j] = Pushed

\* the buffer holds its records in the order they were pushed
C7_BufferInPushOrder ==
    \A i, j \in 1..Len(buffer) :
        i < j => 0 < PushPos(buffer[i].recordId)
                 /\ PushPos(buffer[i].recordId) < PushPos(buffer[j].recordId)

\* C7: a record pushed while a flush is in progress is not removed by that
\* flush and stays in the buffer behind the earlier-pushed survivors, unless
\* overflow evicts it; a flush removes only the record it has just written,
\* found by its recordId, and never another one.
C7_PushesSurviveFlush == [][C7_Step]_vars /\ []C7_BufferInPushOrder

\* a running flush has removed a record and a record pushed after the flush
\* started is in the buffer
C7_Witness ==
    \E f \in Flushers :
        /\ flushes[f].pc \in {"sending", "waiting"}
        /\ flushes[f].successCount >= 1
        /\ Len(pushLog) > flushes[f].pushesAtStart
        /\ pushLog[Len(pushLog)] \in Ids(buffer)

\* ------------------------------------------------------------------ C8

\* C8: FIFO replay: within one flush the records are sent in the order they
\* were pushed; once a later record has been sent no earlier one is sent again.
C8_FifoReplay ==
    \A i, j \in 1..Len(flushLog) :
        i < j => 0 < PushPos(flushLog[i]) /\ PushPos(flushLog[i]) < PushPos(flushLog[j])

\* a flush that retried its first record and is now retrying its second
C8_Witness ==
    \E f \in Flushers :
        /\ flushes[f].pc = "sending"
        /\ flushes[f].index = 2
        /\ flushes[f].attempt = maxAttempts
        /\ flushes[f].failedCount = 1
        /\ Len(flushLog) = 2

\* ------------------------------------------------------------------ C9

\* the records of a sequence that the store has not accepted, in order
NotStored(recs, accepted) ==
    LET keep(r) == r.recordId \notin accepted IN SelectSeq(recs, keep)

\* flush f returns from its loop in this step and nothing was pushed since
\* it took its snapshot
C9_Returns(f) ==
    /\ flushes[f].pc = "sending"
    /\ flushes'[f].pc = "done"
    /\ Len(pushLog') = flushes[f].pushesAtStart

C9_Step ==
    \A f \in Flushers :
        C9_Returns(f) =>
            LET snapshot == flushes[f].recordsToProcess
                written == {i \in 1..Len(snapshot) : snapshot[i].recordId \in stored'}
            IN
            /\ flushes'[f].ret = "resolved"
            /\ flushes'[f].successCount = Cardinality(written)
            /\ flushes'[f].failedCount = Len(snapshot) - Cardinality(written)
            /\ buffer' = NotStored(snapshot, stored')
            /\ Len(buffer') = flushes'[f].failedCount

\* C9: a flush of a non-empty buffer with no concurrent push returns
\* success = the number of snapshot records written and failed = the number
\* not written, and leaves exactly the failed records in the buffer, in
\* their order, so getBufferSize() is the failed count.
C9_FlushResult == [][C9_Step]_vars

\* a finished flush with one record written and one failed, nothing pushed since
C9_Witness ==
    \E f \in Flushers :
        /\ flushes[f].pc = "done"
        /\ flushes[f].successCount >= 1
        /\ flushes[f].failedCount >= 1
        /\ Len(pushLog) = flushes[f].pushesAtStart
        /\ getBufferSize = flushes[f].failedCount

\* ----------------------------------------------------------------- C10

C10_Step ==
    \A f \in Flushers :
        (flushes[f].pc = "idle" /\ flushes'[f].pc # "idle"
            /\ ~isFlushing /\ Len(buffer) = 0) =>
            /\ flushes'[f].pc = "done" /\ flushes'[f].ret = "resolved"
            /\ flushes'[f].successCount = 0 /\ flushes'[f].failedCount = 0
            /\ PendingSends' = PendingSends
            /\ flushLog' = flushLog
            /\ buffer' = buffer
            /\ isFlushing' = isFlushing
            /\ droppedRecordCount' = droppedRecordCount

\* C10: flushBuffer on an empty buffer, with no flush in progress, returns
\* success 0 and failed 0 without sending anything to the store and leaves
\* the buffer, the flag and the dropped count as they were.
C10_FlushEmptyBuffer == [][C10_Step]_vars

\* a flush returned the empty result after an earlier flush had drained the buffer
C10_Witness ==
    \E f, g \in Flushers :
        /\ flushes[f].pc = "done" /\ flushes[f].empty
        /\ flushes[g].pc = "done" /\ flushes[g].successCount >= 1
        /\ ~isFlushing

\* ---------------------------------------------------------------- C11
\* C11 as stated: in every reachable state, every record that was once in the
\* replay buffer and is no longer in it has been successfully written to the
\* store.
C11_RemovedOnlyAfterWrite ==
    \A i \in 1..Len(pushLog) :
        pushLog[i] \notin Ids(buffer) => pushLog[i] \in stored

\* C11 amended: in every reachable state, every record that was once in the
\* replay buffer and is no longer in it has been successfully written to the
\* store or was evicted by _addToBuffer on overflow.
C11_RemovedWrittenOrEvicted ==
    \A i \in 1..Len(pushLog) :
        pushLog[i] \notin Ids(buffer) =>
            pushLog[i] \in stored \/ pushLog[i] \in evicted

\* a flushed record has left the buffer after its write, and an evicted one
\* has left it without any write
C11_Witness ==
    /\ \E i \in 1..Len(pushLog) :
            pushLog[i] \notin Ids(buffer) /\ pushLog[i] \in stored \ evicted
    /\ \E i \in 1..Len(pushLog) :
            pushLog[i] \notin Ids(buffer) /\ pushLog[i] \in evicted \ stored

\* ---------------------------------------------------------------- C12
\* C12: whenever _retryWithBackoff reports failure to storeBeaconRecord (at
\* the last attempt or earlier), the call returns null and its record is the
\* last element of the replay buffer, appended to what was there when there
\* was room; from an empty buffer getBufferSize() becomes 1.
C12_Step ==
    \A c \in Calls :
        (calls[c].pc = "sending" /\ calls'[c].result = "failure") =>
            /\ calls[c].attempt \in 1..maxAttempts
            /\ calls'[c].pc = "done"
            /\ calls'[c].ret = "null"
            /\ Len(buffer') >= 1
            /\ buffer'[Len(buffer')] = calls[c].record
            /\ Len(buffer) < maxBufferSize => buffer' = Append(buffer, calls[c].record)
            /\ Len(buffer) = 0 => Len(buffer') = 1

C12_DegradeToBuffering == [][C12_Step]_vars

\* a failed call returned null and a later failed call put its record behind
\* the first one's
C12_Witness ==
    \E c, d \in Calls :
        /\ c < d
        /\ calls[c].result = "failure" /\ calls[c].ret = "null"
        /\ calls[d].result = "failure" /\ calls[d].ret = "null"
        /\ buffer = <<calls[c].record, calls[d].record>>

\* ---------------------------------------------------------------- C13
\* C13: a storeBeaconRecord call that ended in its catch block (an exception
\* during record construction, or _retryWithBackoff rejecting) returned null
\* and, if its record was constructed, the record was pushed into the replay
\* buffer.
C13_CaughtIsBuffered ==
    \A c \in Calls :
        (calls[c].pc = "done" /\ calls[c].result \in {"none", "threw"}) =>
            /\ calls[c].ret = "null"
            /\ calls[c].record # NoRecord => PushPos(calls[c].record.recordId) # 0

\* ---------------------------------------------------------------- C14
\* C14: a storeBeaconRecord call returns a non-null id exactly when its own
\* write of the record succeeded; then the id is the one of the record it
\* built, and the replay buffer and the dropped count are as before.
C14_Step ==
    \A c \in Calls :
        (calls[c].pc # "done" /\ calls'[c].pc = "done") =>
            /\ calls'[c].ret = "id" <=> calls'[c].record.recordId \in stored'
            /\ calls'[c].ret = "id" =>
                    /\ calls[c].pc = "sending"
                    /\ calls'[c].value = calls[c].record.recordId
                    /\ calls'[c].value # NoRecord.recordId
                    /\ buffer' = buffer
                    /\ droppedRecordCount' = droppedRecordCount
                    /\ pushLog' = pushLog

C14_IdIffWritten == [][C14_Step]_vars

\* one call returned its id after a retry while another returned null
C14_Witness ==
    \E c, d \in Calls :
        /\ calls[c].pc = "done" /\ calls[c].ret = "id" /\ calls[c].value = c
        /\ c \in stored /\ PushPos(c) = 0
        /\ calls[d].pc = "done" /\ calls[d].ret = "null" /\ d \notin stored

\* ---------------------------------------------------------------- C15
\* the last settlement of operation() seen by _retryWithBackoff
LastOutcome == retry.outcomes[Len(retry.outcomes)]

\* all settlements but the last were retryable errors
EarlierAllRetryable ==
    \A i \in 1..(Len(retry.outcomes) - 1) : retry.outcomes[i] \in retryableErrors

\* the waits are 1 s, 2 s, 4 s, ... in milliseconds
WaitsDouble == \A i \in 1..Len(retry.waits) : retry.waits[i] = (2 ^ (i - 1)) * 1000

\* C15: once the operation has failed k times with retryable errors and then
\* succeeded (k < maxAttempts), _retryWithBackoff has resolved with a success
\* outcome carrying the result, after k+1 invocations and exactly k waits, the
\* i-th of 2^(i-1) seconds.
C15_RetryBackoff ==
    (Len(retry.outcomes) >= 1 /\ LastOutcome = "ok" /\ EarlierAllRetryable) =>
        /\ retry.pc = "resolved"
        /\ retry.result = [kind |-> "success", value |-> "ok"]
        /\ Len(retry.outcomes) <= retry.maxAttempts
        /\ Len(retry.waits) = Len(retry.outcomes) - 1
        /\ WaitsDouble

\* two retryable failures, then success on the third of three attempts
C15_Witness ==
    /\ retry.maxAttempts = 3
    /\ retry.pc = "resolved"
    /\ Len(retry.outcomes) = 3
    /\ retry.outcomes[1] \in retryableErrors
    /\ retry.outcomes[2] \in retryableErrors
    /\ retry.outcomes[3] = "ok"
    /\ retry.waits = <<1000, 2000>>
    /\ retry.result.kind = "success"

\* ---------------------------------------------------------------- C16
\* C16: an error is retried (a wait follows it) only when it is one of the
\* four classified errors, and a classified error with attempts left is
\* retried; after any other error object _retryWithBackoff has resolved with a
\* failure outcome carrying that error, with no wait after it and no further
\* invocation: one invocation and no wait when it is the first error.
C16_NonRetryableNotRetried ==
    LET classified == {"ServiceUnavailable", "ProvisionedThroughputExceededException",
                       "RequestTimeout", "NetworkingError"}
        n == Len(retry.outcomes)
    IN  /\ retry.pc = "waiting" => LastOutcome \in classified
        /\ (n >= 1 /\ LastOutcome \in classified /\ n < retry.maxAttempts) =>
                retry.pc \in {"waiting", "calling"} /\ Len(retry.waits) = n
        /\ (n >= 1 /\ LastOutcome \notin classified \cup {"ok"}
                  /\ HasProperties(LastOutcome)) =>
                /\ retry.pc = "resolved"
                /\ retry.result = [kind |-> "failure", value |-> LastOutcome]
                /\ Len(retry.waits) = n - 1
                /\ n = 1 => retry.waits = <<>>

\* the first invocation failed with ValidationException and nothing followed
C16_Witness ==
    /\ retry.maxAttempts = 3
    /\ retry.outcomes = <<"ValidationException">>
    /\ retry.pc = "resolved"
    /\ retry.waits = <<>>
    /\ retry.result = [kind |-> "failure", value |-> "ValidationException"]

\* ---------------------------------------------------------------- C17
\* every settlement so far was a retryable error
AlwaysRetryable ==
    \A i \in 1..Len(retry.outcomes) : retry.outcomes[i] \in retryableErrors

\* C17: the operation is never invoked more than maxAttempts times; while
\* it has only failed with retryable errors, _retryWithBackoff goes on until
\* the maxAttempts-th failure and then resolves with a failure outcome carrying
\* that last error, after maxAttempts-1 waits and none after the last failure
\* (none at all for maxAttempts = 1).
C17_AttemptCap ==
    LET n == Len(retry.outcomes)
    IN  /\ retry.maxAttempts >= 1 => n <= retry.maxAttempts
        /\ (n >= 1 /\ AlwaysRetryable /\ n < retry.maxAttempts) =>
                retry.pc \in {"waiting", "calling"}
        /\ (n >= 1 /\ AlwaysRetryable /\ n = retry.maxAttempts) =>
                /\ retry.pc = "resolved"
                /\ retry.result = [kind |-> "failure", value |-> LastOutcome]
                /\ Len(retry.waits) = retry.maxAttempts - 1
                /\ WaitsDouble
                /\ retry.maxAttempts = 1 => retry.waits = <<>>

\* three retryable failures with the default maxAttempts
C17_Witness ==
    /\ retry.maxAttempts = maxAttempts
    /\ Len(retry.outcomes) = maxAttempts
    /\ AlwaysRetryable
    /\ retry.pc = "resolved"
    /\ retry.result.kind = "failure"
    /\ Len(retry.waits) = maxAttempts - 1

\* ---------------------------------------------------------------- C18
\* C18: whenever _retryWithBackoff has settled, whatever maxAttempts it was
\* given and whatever the operation threw, it has resolved (not rejected) with
\* {success: true, data} or {success: false, error}.
C18_TypedOutcome ==
    retry.pc \in {"resolved", "rejected"} =>
        retry.pc = "resolved" /\ retry.result.kind \in {"success", "failure"}

\* ---------------------------------------------------------------- C19
\* the next advertisement the scanner delivers is number c
NextEvent(c) ==
    /\ calls[c].pc = "idle"
    /\ \A d \in 1..(c - 1) : calls[d].pc # "idle"

\* whatever the other calls are doing, the handler takes the next
\* advertisement, a pending write of a call can settle in every way, and a
\* backoff timer of a call can fire
C19_NeverBlocked ==
    \A c \in Calls :
        /\ NextEvent(c) =>
                \A advertisement \in Advertisements :
                    ENABLED onadvertisement(c, advertisement)
        /\ calls[c].pc = "sending" =>
                \A outcome \in SendOutcomes : ENABLED StoreSendSettles(c, outcome)
        /\ calls[c].pc = "waiting" => ENABLED StoreTimerFires(c)

\* the step of the handler ends with control back at the scanner while the
\* write it started is still pending, and touches no other call
C19_HandlerStep ==
    \A c \in Calls :
        (calls[c].pc = "idle" /\ calls'[c].pc # "idle") =>
            /\ calls'[c].pc = "sending" \/ calls'[c].record = NoRecord
            /\ \A d \in Calls \ {c} : calls'[d] = calls[d]

\* C19: while the storeBeaconRecord call of event N is suspended in a write
\* or a backoff wait, the handler accepts event N+1 and starts its call, every
\* call's writes and timers proceed whatever the other calls do, and the
\* handler is back with the scanner before any write has completed.
C19_IndependentEvents == []C19_NeverBlocked /\ [][C19_HandlerStep]_vars

\* event 1 is in a backoff wait, event 2 was accepted after it and has
\* already returned its id, event 3 has its write outstanding
C19_Witness ==
    /\ calls[1].pc = "waiting"
    /\ calls[2].pc = "done" /\ calls[2].ret = "id"
    /\ calls[2].record.timestamp > calls[1].record.timestamp
    /\ calls[3].pc = "sending"

\* ---------------------------------------------------------------- C20
\* C20: the handler never ends in a raised exception or an unhandled
\* rejection: whenever a storeBeaconRecord call has settled, with an id, with
\* null or rejected, its handler has returned normally or absorbed the error
\* in its catch, and the next advertisement can still be delivered.
C20_HandlerNeverRaises ==
    \A c \in Calls :
        /\ calls[c].handler \in {"none", "returned", "absorbed"}
        /\ calls[c].pc = "done" =>
                /\ calls[c].handler \in {"returned", "absorbed"}
                /\ \A d \in Calls : NextEvent(d) =>
                        ENABLED (\E advertisement \in Advertisements :
                                     onadvertisement(d, advertisement))

\* the handler has taken an id, a null after a failed write, and a null after
\* an exception inside storeBeaconRecord
C20_Witness ==
    \E c, d, e \in Calls :
        /\ calls[c].ret = "id" /\ calls[c].handler = "returned"
        /\ calls[d].ret = "null" /\ calls[d].result = "failure"
        /\ calls[d].handler = "returned"
        /\ calls[e].ret = "null" /\ calls[e].result = "threw"
        /\ calls[e].handler = "returned"

\* ---------------------------------------------------------------- C30
\* C30: the records in the replay buffer are ordered by non-decreasing capture
\* timestamp, and so are the records of the snapshot a flush works through.
C30_BufferInCaptureOrder ==
    /\ \A i, j \in 1..Len(buffer) :
            i < j => buffer[i].timestamp <= buffer[j].timestamp
    /\ \A f \in Flushers :
            \A i, j \in 1..Len(flushes[f].recordsToProcess) :
                i < j => flushes[f].recordsToProcess[i].timestamp
                            <= flushes[f].recordsToProcess[j].timestamp

\* ---------------------------------------------------------------- C29
\* flush f is done with the snapshot record it was sending: it has moved to
\* the next one or returned
C29_MovedOn(f) ==
    /\ flushes[f].pc = "sending"
    /\ flushes'[f].pc = "done" \/ flushes'[f].index = flushes[f].index + 1

\* while a flush is at its index-th snapshot record, the earlier ones are each
\* counted once, as success or as failed
C29_Counted ==
    \A f \in Flushers :
        flushes[f].pc \in {"sending", "waiting"} =>
            flushes[f].successCount + flushes[f].failedCount = flushes[f].index - 1

C29_Step ==
    \A f \in Flushers :
        /\ (flushes[f].pc # "done" /\ flushes'[f].pc = "done"
                /\ flushes[f].pc # "idle") =>
                /\ flushes[f].index = Len(flushes[f].recordsToProcess)
                /\ flushes'[f].ret = "resolved"
        /\ C29_MovedOn(f) =>
                LET fl == flushes[f]
                    record == fl.recordsToProcess[fl.index]
                    failed == record.recordId \notin stored' \ stored
                IN  /\ flushes'[f].failedCount =
                            fl.failedCount + (IF failed THEN 1 ELSE 0)
                    /\ flushes'[f].successCount =
                            fl.successCount + (IF failed THEN 0 ELSE 1)
                    /\ failed => buffer' = buffer
                    /\ fl.index < Len(fl.recordsToProcess) =>
                            /\ flushes'[f].pc = "sending"
                            /\ flushes'[f].attempt = 1
                            /\ flushLog'[Len(flushLog')] =
                                    fl.recordsToProcess[fl.index + 1].recordId
                            /\ Len(flushLog') = fl.index + 1

\* C29: a flush returns only after the last record of its snapshot; when the
\* write of a snapshot record has failed (or thrown) the record stays in the
\* buffer, failed goes up by one, and the next snapshot record is sent through
\* the retry executor from attempt 1.
C29_FlushAttemptsAll == [][C29_Step]_vars /\ []C29_Counted

\* a flush whose first record failed and whose second record was written
C29_Witness ==
    \E f \in Flushers :
        /\ flushes[f].pc = "done"
        /\ flushes[f].failedCount = 1 /\ flushes[f].successCount = 1
        /\ Len(flushLog) = 2
        /\ flushLog[1] \in Ids(buffer) /\ flushLog[1] \notin stored
        /\ flushLog[2] \in stored /\ flushLog[2] \notin Ids(buffer)

\* ---------------------------------------------------------------- C27
\* no flushBuffer invocation rejects, and none is past the third write attempt
\* for a snapshot record
C27_NeverRejects ==
    \A f \in Flushers :
        /\ flushes[f].ret # "rejected"
        /\ flushes[f].attempt <= maxAttempts

\* C27: when the store answers every write, every flushBuffer invocation that
\* is under way eventually resolves with its counts; it never rejects and makes
\* at most 3 write attempts per snapshot record.
C27_FlushTerminates ==
    /\ []C27_NeverRejects
    /\ \A f \in Flushers :
            (flushes[f].pc \in {"sending", "waiting"})
                ~> (flushes[f].pc = "done" /\ flushes[f].ret = "resolved")

\* a flush that resolved after every record of its snapshot had failed
C27_Witness ==
    \E f \in Flushers :
        /\ flushes[f].pc = "done" /\ flushes[f].ret = "resolved"
        /\ flushes[f].failedCount = maxBufferSize
        /\ flushes[f].successCount = 0
        /\ ~isFlushing

\* ---------------------------------------------------------------- C25
\* C25: initialize() throws without a describe call when region, table name or
\* gateway id is missing; otherwise it makes the describe call and returns
\* normally exactly when the table status is ACTIVE, throwing for every other
\* status and every rejection; the buffer, the flush flag and the dropped
\* count stay as the constructor left them.
C25_InitializeFailsFast ==
    setup.pc \in {"describing", "settled"} =>
        LET missing == \/ setup.config.region = <<>>
                       \/ setup.config.tableName = ""
                       \/ setup.config.gatewayId = ""
        IN  /\ missing => /\ setup.pc = "settled"
                          /\ setup.result = "raised"
                          /\ ~setup.contacted
            /\ ~missing => setup.contacted
            /\ setup.pc = "settled" =>
                    /\ setup.result \in {"returned", "raised"}
                    /\ setup.result = "returned" <=>
                            (~missing /\ setup.describe = "ACTIVE")
            /\ buffer = <<>> /\ ~isFlushing /\ droppedRecordCount = 0

\* complete configuration, table still being created: initialize() threw
C25_Witness ==
    /\ setup.pc = "settled"
    /\ setup.contacted
    /\ setup.describe = "CREATING"
    /\ setup.result = "raised"

\* ---------------------------------------------------------------- C26
\* the sample regions of the form xx-xxxx-#
WellFormedRegions ==
    {DefaultRegion, <<"e", "u", "-", "w", "-", "1", "2">>}

\* C26: validateConfig returns true exactly when the region (AWS_REGION, or
\* the default when unset) has the form xx-xxxx-#, GATEWAY_ID is set, and
\* AWS_ACCESS_KEY_ID and AWS_SECRET_ACCESS_KEY are both set or both unset;
\* GATEWAY_NAME and GATEWAY_LOCATION play no part.
C26_ValidateConfig ==
    setup.pc = "validated" =>
        (setup.result = "true" <=>
            /\ setup.config.region \in WellFormedRegions
            /\ setup.env.GATEWAY_ID # ""
            /\ (setup.env.AWS_ACCESS_KEY_ID = "")
                    = (setup.env.AWS_SECRET_ACCESS_KEY = ""))

\* a valid configuration without gateway name, location and credentials
C26_Witness ==
    /\ setup.pc = "validated"
    /\ setup.result = "true"
    /\ setup.env.GATEWAY_NAME = "" /\ setup.env.GATEWAY_LOCATION = ""
    /\ setup.env.AWS_ACCESS_KEY_ID = "" /\ setup.env.AWS_SECRET_ACCESS_KEY = ""
    /\ setup.env.AWS_REGION # <<>>

\* ------------------------------------------------------------------ C21

\* a flushBuffer invocation starts in this step
FlushStarts == \E f \in Flushers : flushes[f].pc = "idle" /\ flushes'[f].pc # "idle"

\* the handler calls storeBeaconRecord in this step
Delivery == \E c \in Calls : calls[c].pc = "idle" /\ calls'[c].pc # "idle"

\* C21: on a termination signal the scanner is stopped first and the flush
\* runs afterwards: a flush only starts once the scanner has been told to
\* stop, and no advertisement reaches storeBeaconRecord once a shutdown flush
\* has started.
C21_StopThenFlush ==
    [][/\ FlushStarts => ~app.scanning
       /\ Delivery => \A f \in Flushers : flushes[f].pc = "idle"]_vars

\* ------------------------------------------------------------------ C22

\* shutdown invocation s exits the process in this step
ShutdownExits(s) ==
    /\ app.phase = "started" /\ app.exit = "none" /\ app'.exit # "none"
    /\ app.sd[s].pc # "done" /\ app'.sd[s].pc = "done"

\* C22: a shutdown whose flush has settled, with failed records, skipped or
\* otherwise, goes on to stop the scanner; the exit status of a shutdown is 1
\* exactly when stopScan raised and 0 otherwise; and a shutdown that awaits
\* its flush ends with the process exited.
C22_FlushNotFatal ==
    /\ [][\A s \in Signals :
            /\ (app.phase = "started" /\ app.sd[s].pc = "flushing"
                    /\ app'.sd[s].pc # "flushing")
                => /\ app'.sd[s].pc = "stopping"
                   /\ ~app'.scanning
                   /\ app'.exit = "none"
            /\ ShutdownExits(s)
                => /\ app.sd[s].pc = "stopping"
                   /\ app'.exit = "1" <=> app'.sd[s].stop = "error"
                   /\ app'.exit = "0" <=> app'.sd[s].stop = "ok"]_vars
    /\ \A s \in Signals :
            (app.phase = "started" /\ app.sd[s].pc = "flushing")
                ~> (app.phase = "started" /\ app.exit # "none")

\* a shutdown whose flush left failed records ended with exit status 0, and
\* one whose flush was skipped had gone on to stop the scanner
C22_Witness ==
    /\ app.phase = "started" /\ app.exit = "0"
    /\ \E s \in Signals :
            /\ app.sd[s].pc = "done" /\ app.sd[s].flush # 0
            /\ flushes[app.sd[s].flush].failedCount > 0
            /\ flushes[app.sd[s].flush].ret = "resolved"
    /\ \E t \in Signals :
            /\ app.sd[t].pc = "stopping" /\ app.sd[t].flush # 0
            /\ flushes[app.sd[t].flush].skipped

\* ------------------------------------------------------------------ C23

\* a shutdown invocation has been made
ShutdownBegun(a) == \E s \in Signals : a.sd[s].pc # "idle"

\* the lifecycle state of the controller
Lifecycle(a) ==
    IF a.phase = "loaded" THEN "starting"
    ELSE IF a.exit = "0" THEN "stopped"
    ELSE IF a.exit = "1" THEN "failed"
    ELSE IF ShutdownBegun(a) THEN "stopping"
    ELSE IF a.init = "running" THEN "running"
    ELSE "starting"

Transitions ==
    {<<"starting", "running">>, <<"running", "stopping">>,
     <<"stopping", "stopped">>, <<"starting", "failed">>,
     <<"stopping", "failed">>}

\* C23: the lifecycle state only moves along starting -> running -> stopping
\* -> stopped, starting -> failed and stopping -> failed; in particular the
\* shutdown sequence starts only from running.
C23_LifecycleTransitions ==
    [][Lifecycle(app') # Lifecycle(app)
            => <<Lifecycle(app), Lifecycle(app')>> \in Transitions]_vars

\* ------------------------------------------------------------------ C24

\* beaconStorage.initialize() has completed successfully
StorageInitialized == app.phase = "started" /\ app.storageInit = "returned"

\* validateConfig() returned false or beaconStorage.initialize() raised
StartupFailed ==
    app.phase = "started" /\ (app.init = "invalid" \/ app.storageInit = "raised")

\* C24: after a failed validation or a raise of BeaconStorage.initialize() the
\* process has exited with status 1 with no handler registered and the
\* scanner never started; storeBeaconRecord is only ever called after
\* initialize() completed successfully; and the scanner is only started with
\* the handler registered.
C24_FatalStartup ==
    /\ StartupFailed
            => /\ app.exit = "1"
               /\ ~app.handler /\ ~app.scanning
               /\ \A c \in Calls : calls[c].pc = "idle"
    /\ (\E c \in Calls : calls[c].pc # "idle") => StorageInitialized
    /\ (app.phase = "started" /\ app.scanning) => app.handler

\* BeaconStorage.initialize() raised and the process exited
C24_Witness ==
    app.phase = "started" /\ app.storageInit = "raised" /\ app.exit = "1"

\* ------------------------------------------------------------------ C28

\* no termination signal has been received
NoSignal == app.phase = "started" => ~ShutdownBegun(app)

\* the remote store accepts writes
StoreUp == app.phase = "started" /\ app.store = "up"

\* C28: while no termination signal arrives, if the store becomes and stays
\* available, every buffered record is eventually written to the store.
C28_ReplayOnRecovery ==
    ([]NoSignal /\ <>[]StoreUp)
        => \A c \in Events : (c \in Ids(buffer)) ~> (c \in stored)

\* ------------------------------------------------------------------ C31

\* storeBeaconRecord call c has built its record
Built(c) == calls[c].record # NoRecord

\* the records a running flush holds in its snapshot
Snapshots == UNION {Range(flushes[f].recordsToProcess) : f \in Flushers}

\* C31: every record in the buffer or in the snapshot of a flush is the
\* record as the storeBeaconRecord call built it (same recordId, same
\* timestamp); a call builds its record once and nothing changes it
\* afterwards; the records of different calls have different recordIds.
C31_ReplayUnchanged ==
    /\ [](\A r \in Range(buffer) \cup Snapshots :
            \E c \in Calls : Built(c) /\ calls[c].record = r)
    /\ [](\A c, d \in Calls :
            (Built(c) /\ Built(d) /\ c # d)
                => calls[c].record.recordId # calls[d].record.recordId)
    /\ [][\A c \in Calls : Built(c) => calls'[c].record = calls[c].record]_vars

\* a flush is rewriting the second record of its snapshot after the first
\* was written, both built by earlier calls
C31_Witness ==
    \E f \in Flushers :
        /\ flushes[f].pc = "sending"
        /\ flushes[f].index = 2
        /\ flushes[f].recordsToProcess[1].recordId \in stored
        /\ flushes[f].recordsToProcess[2].timestamp + 1 < now

\* ------------------------------------------------------------------ C32

\* flush f returns from its loop in this step
LoopReturns(f) == flushes[f].pc = "sending" /\ flushes'[f].pc = "done"

\* C32: a flush that ran its loop returns success + failed = the number of
\* records in its snapshot, whatever was pushed meanwhile; inside the loop
\* the two counts add up to the number of records already processed.
C32_CountsCoverSnapshot ==
    /\ [](\A f \in Flushers :
            flushes[f].pc \in {"sending", "waiting"}
                => flushes[f].successCount + flushes[f].failedCount
                        = flushes[f].index - 1)
    /\ [][\A f \in Flushers :
            LoopReturns(f)
                => /\ flushes'[f].ret = "resolved"
                   /\ ~flushes'[f].skipped /\ ~flushes'[f].empty
                   /\ flushes'[f].successCount + flushes'[f].failedCount
                        = Len(flushes[f].recordsToProcess)]_vars

\* a flush of two records has returned two successes, and a record was
\* pushed while it ran
C32_Witness ==
    \E f \in Flushers :
        /\ flushes[f].pc = "done"
        /\ flushes[f].successCount = 2
        /\ flushes[f].failedCount = 0
        /\ Len(pushLog) > flushes[f].pushesAtStart
        /\ Len(buffer) > 0

\* ------------------------------------------------------------------ C33

\* the process has exited
Exited == app.phase = "started" /\ app.exit # "none"

\* C33: the process never exits while a flushBuffer body is between setting
\* the flag and returning.
C33_NoExitDuringFlush == Exited => RunningFlushes = {}

\* ------------------------------------------------------------------ C34

\* a storeBeaconRecord call is between building its record and returning
InFlight(c) == calls[c].pc \in {"sending", "waiting"}

\* C34: when the process has exited with status 0, no storeBeaconRecord call
\* is still in flight and every record left in the buffer was sent by the
\* shutdown flush.
C34_NothingLostAtExit ==
    (app.phase = "started" /\ app.exit = "0")
        => /\ \A c \in Calls : ~InFlight(c)
           /\ Ids(buffer) \subseteq Range(flushLog)

\* ------------------------------------------------------------------ C35

\* flushBuffer call f is made in this step
FlushCalled(f) == flushes[f].pc = "idle" /\ flushes'[f].pc # "idle"

\* C35: the flag is set exactly while a flushBuffer body is between setting
\* it and returning, and a flushBuffer call made on a non-empty buffer when
\* no flush is running is not skipped: it starts its loop.
C35_FlagTracksFlush ==
    /\ [](isFlushing <=> RunningFlushes # {})
    /\ [][\A f \in Flushers :
            (FlushCalled(f) /\ RunningFlushes = {} /\ Len(buffer) > 0)
                => /\ ~flushes'[f].skipped
                   /\ flushes'[f].pc = "sending"
                   /\ isFlushing']_vars

\* after a flush that returned with a failed record, a later call is
\* running its loop
C35_Witness ==
    \E f, g \in Flushers :
        /\ f < g
        /\ flushes[f].pc = "done" /\ flushes[f].failedCount >= 1
        /\ ~flushes[f].skipped
        /\ flushes[g].pc = "sending"
        /\ isFlushing

\* ------------------------------------------------------------------ C36

\* the recordIds of the PutCommands that are pending or will be sent by the
\* invocations in progress: the record of each call in flight, and the
\* records of a running flush from its current one on
ToBeSent ==
    {calls[c].record.recordId : c \in {d \in Calls : InFlight(d)}}
        \cup UNION {{flushes[f].recordsToProcess[i].recordId :
                        i \in flushes[f].index..Len(flushes[f].recordsToProcess)} :
                    f \in RunningFlushes}

\* a write is reported successful in this step: a call returns its id, or a
\* flush counts a success
WriteSucceeds ==
    \/ \E c \in Calls : calls[c].ret # "id" /\ calls'[c].ret = "id"
    \/ \E f \in Flushers : flushes'[f].successCount = flushes[f].successCount + 1

\* C36: no record is written twice: a record the store has accepted is
\* neither in the buffer nor about to be sent again, and every successful
\* write adds a record the store did not have.
C36_WrittenAtMostOnce ==
    /\ [](stored \cap (Ids(buffer) \cup ToBeSent) = {})
    /\ [][WriteSucceeds => Cardinality(stored') = Cardinality(stored) + 1]_vars

\* a flush wrote a record, and a later flush is sending another
C36_Witness ==
    \E f, g \in Flushers :
        /\ f < g
        /\ flushes[f].pc = "done" /\ flushes[f].successCount >= 1
        /\ flushes[g].pc = "sending"
        /\ \E c \in Calls : calls[c].ret = "id"

\* ------------------------------------------------------------------ C37

\* C37: a record evicted by overflow is never written to the store: no
\* recordId is both evicted (and counted in droppedRecordCount) and stored.
C37_EvictedNeverWritten ==
    /\ evicted \cap stored = {}
    /\ droppedRecordCount = Cardinality(evicted \ stored)

\* ------------------------------------------------------------------ C38

\* a flush counts a failed record in this step
FlushFails == \E f \in Flushers : flushes'[f].failedCount = flushes[f].failedCount + 1

\* C38: the buffer never holds two records with the same recordId; a record
\* is pushed at most once, by the call that built it; and a failed flush
\* attempt pushes nothing and leaves the buffer as it is.
C38_NoDuplicateIds ==
    /\ [](Cardinality(Ids(buffer)) = Len(buffer))
    /\ [](\A i, j \in 1..Len(pushLog) : pushLog[i] = pushLog[j] => i = j)
    /\ [][/\ Len(pushLog') > Len(pushLog)
              => \E c \in Calls :
                    /\ InFlight(c) /\ calls'[c].pc = "done"
                    /\ pushLog' = Append(pushLog, calls[c].record.recordId)
          /\ FlushFails => (buffer' = buffer /\ pushLog' = pushLog)]_vars

\* a flush failed on both records of a full buffer and they are still there
C38_Witness ==
    \E f \in Flushers :
        /\ flushes[f].pc = "done" /\ flushes[f].failedCount = 2
        /\ Len(buffer) = 2
        /\ Len(pushLog) = flushes[f].pushesAtStart

\* ------------------------------------------------------------------ C39

\* the /api/beacons request was answered with the summary
Answered == dash.pc = "done" /\ dash.response.status = 200

\* the keys of the retrieved records
RetrievedKeys == {Key(dash.items[i]) : i \in 1..Len(dash.items)}

\* the entry is made from a record of its key with the greatest timestamp
Latest(entry, records) ==
    \E j \in 1..Len(records) :
        /\ Key(records[j]) = Key(entry)
        /\ \A k \in 1..Len(records) :
                Key(records[k]) = Key(entry) => records[k].timestamp <= records[j].timestamp
        /\ entry.rssi = records[j].rssi
        /\ entry.lastSeen = records[j].timestamp

\* C39: for any list of retrieved records the response has exactly one entry
\* per distinct uuid-major-minor key, uniqueBeacons is the number of keys,
\* each entry is made from the record with the greatest timestamp of its
\* key, and activeBeacons counts the entries seen within RECENT_TIME_WINDOW
\* and is at most uniqueBeacons.
C39_DashboardSummary ==
    Answered =>
        LET records == dash.items
            beacons == dash.response.beacons
        IN
        /\ \A key \in RetrievedKeys :
                Cardinality({i \in 1..Len(beacons) : Key(beacons[i]) = key}) = 1
        /\ \A i \in 1..Len(beacons) : Key(beacons[i]) \in RetrievedKeys
        /\ dash.response.uniqueBeacons = Cardinality(RetrievedKeys)
        /\ \A i \in 1..Len(beacons) : Latest(beacons[i], records)
        /\ dash.response.activeBeacons =
                Cardinality({i \in 1..Len(beacons) :
                                DashNow - beacons[i].lastSeen < RECENT_TIME_WINDOW})
        /\ dash.response.activeBeacons <= dash.response.uniqueBeacons

=============================================================================
